---- MODULE Spec2Model ----
(***************************************************************************)
(* A model of pymachine's construction-matching engine:                    *)
(*   src/src/spreading_activation.py  SpreadingActivation.activation_loop  *)
(*   src/src/pymachine/construction.py Construction and its subclasses     *)
(* The loop is one sequential process; pc is its position.  The lexicon,   *)
(* the automaton classes (fst.py), the matchers and the operators are      *)
(* collaborators that are not part of the sources at hand; they are        *)
(* modelled at their interface.                                            *)
(***************************************************************************)
EXTENDS Integers, Sequences, FiniteSets, TLC

\* Number of lexicon units (Machine objects the lexicon can activate).
NUnits == 3
\* Largest value len(lexicon.active) takes.
MaxActive == 1
\* Number of partitions after partition 0 of every unit (base.partitions[1:]).
NParts == 2

Units == 1..NUnits
\* VerbConstruction.working_area[0], a Machine with control 'stem/VERB'.
WA == NUnits + 1
\* The AVM object an AVMConstruction fills and returns.
AVMU == NUnits + 2
AllUnits == 1..(NUnits + 2)
PartIdx == 1..NParts

VARIABLES
  tags,          \* lexicon: the control tag of every unit
  constructions, \* lexicon.constructions, a list of construction kinds
  arguments,     \* VerbConstruction.matchers.keys(): the roles of the verb
  lexActive,     \* len(lexicon.active)
  lexKnown,      \* the units the lexicon has activated
  lexExpanded,   \* the units lexicon.expand() was called on
  anch,          \* anch[u][p]: the deep cases on partition p of unit u
  links,         \* links[u][p]: the units on partition p of unit u
  pc,            \* position of activation_loop
  last_active, unexpanded, sentence, linking,  \* its locals
  ci,            \* index in lexicon.constructions of the construction c
  accepted, c_res,
  ctl,           \* ctl[kind]: current state of the construction's control
  working_area,  \* VerbConstruction.working_area[0]
  activated,     \* VerbConstruction.activated
  avm,           \* the slots of the AVMConstruction's AVM
  opsRun,        \* transition operators executed by the last search or act
  acts,          \* the act() calls made for c in this iteration
  fired,         \* act() of the verb construction has been executed
  changed,       \* the last activation changed len(lexicon.active)
  initial,       \* the units get_unexpanded() gave before the loop
  consumed,      \* the units constructions removed from the sentence
  linkCalls      \* linkCalls[a]: the machines of every _link call for a

loopVars == <<tags, constructions, arguments, lexActive, lexKnown, lexExpanded, anch, links,
          pc, last_active, unexpanded, sentence, linking, ci, accepted, c_res,
          ctl, working_area, activated, avm, opsRun, acts, fired, changed,
          initial, consumed, linkCalls>>

\* The simple constructions of constructions.py.
VARIABLES
  spc,           \* "new": a definition line was read; "built"; "done"
  def_rule,      \* field 2 of the line, split: the terminals
  def_code,      \* field 3 of the line: the command code
  pos,           \* pos[u]: the tag of the PosControl of unit u
  rule_right,    \* Construction.rule_right
  command,       \* Construction.command
  machines,      \* the argument of the last do()
  result,        \* what the last do() gave
  part1          \* part1[u]: the units appended to partition 1 of unit u

simpleVars == <<spc, def_rule, def_code, pos, rule_right, command, machines,
                result, part1>>

\* NPConstruction.last_check called on its own.
VARIABLES
  lc_patterns,   \* [m.pattern for m in self.matchers]
  lc_krs,        \* [machine.control.kr for machine in seq]
  lc_res         \* what last_check(seq) returned, "-" before the call

lcVars == <<lc_patterns, lc_krs, lc_res>>

\* The methods of a construction called one after the other by any caller.
VARIABLES
  call           \* the last call: method, construction, sequence, result

\* VerbConstruction.generate_control followed call by call.
VARIABLES
  control        \* the FST being built: the add_transition calls made so
                 \* far, in order, and the transitions it holds

auxVars == <<simpleVars, lcVars, call, control>>

vars == <<loopVars, simpleVars, lcVars, call, control>>

Tags == {"VERB", "NOUN_NOM", "NOUN_ACC"}
\* Deep cases: the link anchors (constants.deep_cases).
Anchors == {"AGT", "PAT"}

\* The kr attribute map of a control tag.
KR(tag) ==
  CASE tag = "VERB" -> [CAT |-> "VERB"]
    [] tag = "NOUN_NOM" -> [CAT |-> "NOUN", CAS |-> "NOM"]
    [] OTHER -> [CAT |-> "NOUN", CAS |-> "ACC"]

\* The definition lexicon.expand() gives a unit: the deep cases on each of
\* its partitions[1:].
StaticDef(tag) ==
  [p \in PartIdx |->
     CASE tag = "VERB" -> IF p = 1 THEN {"AGT"} ELSE IF p = 2 THEN {"PAT"} ELSE {}
       [] tag = "NOUN_NOM" -> {"AGT"}
       [] OTHER -> IF p = 2 THEN {"PAT"} ELSE {}]

\* tmpl[key][0] == '@'
IsVariable(v) == v \in {"@x", "@y"}

\* A matcher's test of a unit's kr against its pattern; variables match any
\* value.
Matches(pattern, data) ==
  \A k \in DOMAIN pattern :
     /\ k \in DOMAIN data
     /\ (IsVariable(pattern[k]) \/ pattern[k] = data[k])

(***************************************************************************)
(* Sequences                                                               *)
(***************************************************************************)
Range(s) == {s[i] : i \in 1..Len(s)}

MinOf(S) == CHOOSE x \in S : \A y \in S : x <= y

\* The element of a one-element set.  The recursive operators below bind
\* their accumulators with it, { e(x) : x \in {acc} }, so that each is
\* evaluated once.
The(S) == CHOOSE x \in S : TRUE

\* Iteration order of a Python set of units: fixed by the objects' hashes,
\* here the unit numbers.
RECURSIVE SetToSeq(_)
SetToSeq(S) ==
  IF S = {} THEN <<>>
  ELSE LET m == MinOf(S) IN <<m>> \o SetToSeq(S \ {m})

RemoveAt(s, i) == [j \in 1..(Len(s) - 1) |-> IF j < i THEN s[j] ELSE s[j + 1]]

Prefixed(x, ss) == [j \in 1..Len(ss) |-> <<x>> \o ss[j]]

\* itertools.permutations(pool, r): r-length tuples, in the order of the
\* positions of the pool.
RECURSIVE permutations(_, _)
RECURSIVE PermsFrom(_, _, _)
permutations(pool, r) ==
  IF r = 0 THEN << <<>> >>
  ELSE The({PermsFrom(p, r, 1) : p \in {pool}})
PermsFrom(pool, r, i) ==
  IF i > Len(pool) THEN <<>>
  ELSE Prefixed(pool[i], permutations(RemoveAt(pool, i), r - 1))
         \o PermsFrom(pool, r, i + 1)

\* for elems in xrange(len(sentence)):
\*     for seq in itertools.permutations(sentence, elems + 1):
RECURSIVE CandidatesFrom(_, _)
CandidatesFrom(pool, elems) ==
  IF elems >= Len(pool) THEN <<>>
  ELSE permutations(pool, elems + 1) \o CandidatesFrom(pool, elems + 1)

Candidates(S) == The({CandidatesFrom(pool, 0) : pool \in {SetToSeq(S)}})

\* accepted.sort(key=lambda seq: len(seq)): a stable sort by length.
RECURSIVE SortFrom(_, _, _)
SortFrom(acc, n, maxn) ==
  IF n > maxn THEN <<>>
  ELSE SelectSeq(acc, LAMBDA s : Len(s) = n) \o SortFrom(acc, n + 1, maxn)

\* A sort that puts the longest sequences first.
SortLongestFirst(acc) ==
  [i \in 1..Len(acc) |->
     SortFrom(acc, 0, NUnits + 2)[Len(acc) + 1 - i]]

SortByLen(acc) == SortFrom(acc, 0, NUnits + 2)

(***************************************************************************)
(* Automata (FSA / FST)                                                    *)
(***************************************************************************)
\* The state of an automaton that read a unit no transition matched.
Stuck == 0 - 1

NoArg == "-"

Transition(matcher, ops, src, dst) ==
  [matcher |-> matcher, ops |-> ops, src |-> src, dst |-> dst]

ExpandOperator == [op |-> "Expand", arg |-> NoArg]
FillArgumentOperator(arg) == [op |-> "Fill", arg |-> arg]

\* The value lexicon/working-area slots hold when empty.
NoUnit == 0

\* An operator of a transition acting on the unit read: ExpandOperator puts
\* the verb into the working area, FillArgumentOperator binds the unit to
\* its role there.
RunOperator(o, u, wa) ==
  IF o.op = "Expand" THEN [wa EXCEPT !.verb = u]
  ELSE [wa EXCEPT !.roles[o.arg] = u]

RECURSIVE RunOperators(_, _, _, _)
RunOperators(ops, i, u, wa) ==
  IF i > Len(ops) THEN wa
  ELSE The({RunOperators(ops, i + 1, u, w) : w \in {RunOperator(ops[i], u, wa)}})

RECURSIVE Pow2(_)
Pow2(n) == IF n = 0 THEN 1 ELSE 2 * Pow2(n - 1)

IndexOf(s, x) == MinOf({i \in 1..Len(s) : s[i] = x})

\* self.matchers.keys() of the verb construction: the roles discover_arguments
\* finds in the verb's definition, for the verbs of the lexicon.
ArgumentLists == {<<"AGT">>, <<"AGT", "PAT">>}

\* deep_case_to_grammatical_case, and the KRPosMatcher built from it.
\* A role whose name starts with "$" takes its matcher from supp_dict.
RoleMatcher(arg) ==
  CASE arg = "AGT" -> [CAT |-> "NOUN", CAS |-> "NOM"]
    [] arg = "PAT" -> [CAT |-> "NOUN", CAS |-> "ACC"]
    [] arg = "DAT" -> [CAT |-> "NOUN", CAS |-> "DAT"]
    [] OTHER -> [CAT |-> "POST"]

\* One path's transitions with the increase taken from the position of the
\* role in the path.
RECURSIVE PathTransitionsByPosition(_, _, _, _)
PathTransitionsByPosition(args, path, i, actual_state) ==
  IF i > Len(path) THEN <<>>
  ELSE LET new_state == actual_state + Pow2(i - 1)
       IN <<Transition(RoleMatcher(path[i]), <<FillArgumentOperator(path[i])>>,
                       actual_state, new_state)>>
            \o PathTransitionsByPosition(args, path, i + 1, new_state)

\* The transitions one path of generate_control's permutation loop adds.
RECURSIVE PathTransitions(_, _, _, _)
PathTransitions(args, path, i, actual_state) ==
  IF i > Len(path) THEN <<>>
  ELSE LET increase == Pow2(IndexOf(args, path[i]) - 1)
           new_state == actual_state + increase
       IN <<Transition(RoleMatcher(path[i]), <<FillArgumentOperator(path[i])>>,
                       actual_state, new_state)>>
            \o PathTransitions(args, path, i + 1, new_state)

\* The transitions of the first path only.
FirstPathOnly(args, paths, j) ==
  IF paths = <<>> THEN <<>> ELSE PathTransitions(args, paths[1], 1, 1)

RECURSIVE AllPathTransitions(_, _, _)
AllPathTransitions(args, paths, j) ==
  IF j > Len(paths) THEN <<>>
  ELSE PathTransitions(args, paths[j], 1, 1)
         \o AllPathTransitions(args, paths, j + 1)

\* VerbConstruction.generate_control: the hypercube automaton.  trans lists
\* the add_transition calls in the order they are made.
generate_control(args) ==
  [init |-> 0,
   final |-> {Pow2(Len(args))},
   trans |-> <<Transition([CAT |-> "VERB"], <<ExpandOperator>>, 0, 1)>>
               \o AllPathTransitions(args,
                     permutations(args, Len(args)), 1)]

\* The rule of the chunk construction, as parse_rule gives it: one matcher
\* pattern per unit.
NPPatterns == <<[CAT |-> "NOUN", CAS |-> "@x"], [CAT |-> "NOUN", CAS |-> "@x"]>>

\* NPConstruction._create_control: a chain 0 -> 1 -> ... -> len(matchers).
_create_control(matchers) ==
  [init |-> 0,
   final |-> {Len(matchers)},
   trans |-> [s \in 1..Len(matchers) |->
                Transition(matchers[s], <<>>, s - 1, s)]]

\* machine.control.kr
UnitKR(u) ==
  IF u \in Units THEN KR(tags[u])
  ELSE IF u = WA THEN [CAT |-> "VERB"]
  ELSE <<>>

\* control.read(machine, dry_run): take the transition of the current state
\* whose matcher accepts the unit; its operators run unless dry_run.
read(A, st, u, dry_run) ==
  LET fire == {i \in 1..Len(A.trans) :
                 /\ A.trans[i].src = st.state
                 /\ Matches(A.trans[i].matcher, UnitKR(u))}
  IN IF fire = {} THEN [st EXCEPT !.state = Stuck]
     ELSE LET t == A.trans[MinOf(fire)]
          IN [state |-> t.dst,
              wa |-> IF dry_run THEN st.wa
                     ELSE RunOperators(t.ops, 1, u, st.wa),
              nops |-> IF dry_run THEN st.nops ELSE st.nops + Len(t.ops)]

RECURSIVE ReadAll(_, _, _, _, _)
ReadAll(A, st, seq, i, dry_run) ==
  IF i > Len(seq) THEN st
  ELSE The({ReadAll(A, s, seq, i + 1, dry_run) :
              s \in {read(A, st, seq[i], dry_run)}})

\* control.reset()
reset(A, st) == [st EXCEPT !.state = A.init]

in_final(A, st) == st.state \in A.final

(***************************************************************************)
(* Constructions                                                           *)
(***************************************************************************)
VerbControl == generate_control(arguments)
NPControl == _create_control(NPPatterns)

\* Results of act(): None, or a sequence of units.
None == [none |-> TRUE, val |-> <<>>]
Some(seq) == [none |-> FALSE, val |-> seq]

\* A check that reads with effects.
CheckEffecting == FALSE

\* The dry_run argument of the reads of Construction.check.
CheckDryRun == TRUE

\* A check that goes on from the state the control is in.
CheckNoReset(A, st) == st

\* self.control.reset() of Construction.check
CheckReset(A, st) == reset(A, st)

\* Construction.check: reset the control, read every unit, report in_final.
\* st is the control's state, the working area its operators share and the
\* count of operators executed.
Construction_check(A, st, seq) ==
  The({The({[st |-> s2, res |-> in_final(B, s2)] :
              s2 \in {ReadAll(B, CheckReset(B, st), seq, 1, CheckDryRun)}}) :
         B \in {A}})

\* VerbConstruction.check
VerbConstruction_check(act_flag, st, seq) ==
  IF act_flag THEN [st |-> st, res |-> FALSE]
  ELSE Construction_check(VerbControl, st, seq)

\* A check that accepts the sequences of one unit only.
AVMCheckSingle(st, seq) == [st |-> st, res |-> Len(seq) = 1]

\* AVMConstruction.check
AVMConstruction_check(st, seq) == [st |-> st, res |-> TRUE]

\* c.check(seq), dispatched on the kind of c.
check(kind, st, seq) ==
  CASE kind = "verb" -> VerbConstruction_check(activated, st, seq)
    [] kind = "np" -> Construction_check(NPControl, st, seq)
    [] OTHER -> AVMConstruction_check(st, seq)

\* Construction.act: reset the control and read every unit with effects.
\* The method ends without a return statement: its result is None.
Construction_act(A, st, seq) ==
  The({[st |-> ReadAll(B, reset(B, st), seq, 1, FALSE), res |-> None] :
         B \in {A}})

\* The slots of the AVM and the pattern of each slot's type matcher.
AvmKeys == {"head", "pred"}
AvmType(key) == IF key = "head" THEN [CAT |-> "NOUN"] ELSE [CAT |-> "VERB"]

\* AVMConstruction.act, the body of the loop for one machine.
AvmActOne(a, machine) ==
  [key \in AvmKeys |->
     IF Matches(AvmType(key), UnitKR(machine)) THEN machine
     ELSE IF a[key] = machine THEN NoUnit
     ELSE a[key]]

RECURSIVE AVMConstruction_act(_, _, _)
AVMConstruction_act(a, seq, i) ==
  IF i > Len(seq) THEN a
  ELSE The({AVMConstruction_act(b, seq, i + 1) : b \in {AvmActOne(a, seq[i])}})

\* NPConstruction.act pipes seq through the construction's operators, which
\* give a sequence or nothing: the results an operator pipeline can give.
NPConstruction_act(seq) == {None, Some(seq), Some(<<seq[Len(seq)]>>)}

\* Patterns and kr maps with nesting.  A dict is the sequence of its entries
\* in the order its iteration gives them; an entry holds a value or a dict.
Leaf(key, val) == [key |-> key, isdict |-> FALSE, val |-> val, sub |-> <<>>]
Dict(key, sub) == [key |-> key, isdict |-> TRUE, val |-> "", sub |-> sub]
Keys(d) == {d[i].key : i \in 1..Len(d)}
Get(d, key) == d[CHOOSE i \in 1..Len(d) : d[i].key = key]

\* NPConstruction._collect_variable_values, from the i-th key of tmpl on;
\* ok is the value returned.  On a nested dict the method returns what the
\* recursive call returns: the loop over the keys of tmpl ends there.
RECURSIVE _collect_variable_values(_, _, _, _)
_collect_variable_values(tmpl, i, data, greeks) ==
  IF i > Len(tmpl) THEN [ok |-> TRUE, greeks |-> greeks]
  ELSE IF tmpl[i].key \notin Keys(data) THEN [ok |-> FALSE, greeks |-> greeks]
  ELSE IF tmpl[i].isdict
  THEN _collect_variable_values(tmpl[i].sub, 1, Get(data, tmpl[i].key).sub,
                                greeks)
  ELSE The({_collect_variable_values(tmpl, i + 1, data, g) :
              g \in {IF IsVariable(tmpl[i].val)
                      THEN [greeks EXCEPT ![tmpl[i].val] =
                                      @ \cup {Get(data, tmpl[i].key).val}]
                      ELSE greeks}})

RECURSIVE LastCheckFrom(_, _, _, _)
LastCheckFrom(patterns, krs, i, greeks) ==
  IF i > Len(krs) THEN \A v \in DOMAIN greeks : Cardinality(greeks[v]) <= 1
  ELSE The({IF ~r.ok THEN FALSE
            ELSE LastCheckFrom(patterns, krs, i + 1, r.greeks) :
              r \in {_collect_variable_values(patterns[i], 1, krs[i], greeks)}})

\* NPConstruction.last_check, on the patterns of the matchers and the kr maps
\* of the machines of seq.
last_check(patterns, krs) ==
  LastCheckFrom(patterns, krs, 1, [v \in {"@x", "@y"} |-> {}])

\* The patterns a rule can give a matcher and the kr maps of the units.
PatternPool ==
  {<<Leaf("CAS", "@x")>>,
   <<Dict("POSS", <<Leaf("PERS", "@y")>>)>>,
   <<Dict("POSS", <<Leaf("PERS", "1")>>), Leaf("CAS", "@x")>>,
   <<Leaf("CAS", "@x"), Dict("POSS", <<Leaf("PERS", "1")>>)>>,
   <<Dict("POSS", <<Leaf("PERS", "@y")>>), Leaf("CAS", "@x")>>,
   <<Leaf("CAS", "@x"), Dict("POSS", <<Leaf("PERS", "@y")>>)>>}
KrPool ==
  {<<Leaf("CAS", c), Dict("POSS", <<Leaf("PERS", n)>>)>> :
     c \in {"NOM", "ACC"}, n \in {"1", "2"}}

\* The matcher's test of a kr map against its pattern: every key is there,
\* a literal is equal, a variable takes any value.
RECURSIVE PatMatches(_, _)
PatMatches(tmpl, data) ==
  \A i \in 1..Len(tmpl) :
     /\ tmpl[i].key \in Keys(data)
     /\ IF tmpl[i].isdict
        THEN /\ Get(data, tmpl[i].key).isdict
             /\ PatMatches(tmpl[i].sub, Get(data, tmpl[i].key).sub)
        ELSE \/ IsVariable(tmpl[i].val)
             \/ tmpl[i].val = Get(data, tmpl[i].key).val

LcIdle == lc_patterns = <<>> /\ lc_krs = <<>> /\ lc_res = "-"

(***************************************************************************)
(* Simple constructions (constructions.py)                                 *)
(***************************************************************************)
\* Longest right-hand rule of a definition line.
MaxRule == 2

\* Category labels and command codes are strings: sequences of characters.
Terminals == {<<"N">>, <<"N", "P">>, <<"V">>}
Codes == Terminals \cup {<<"N", "[", "V", "]">>, <<"V", "[", "N", "P", "]">>,
                         <<"*">>}
Rules == UNION {[1..n -> Terminals] : n \in 1..MaxRule}

\* PosControl(pos), and PosControl.is_a: the tag satisfies the pattern.
Control(part) == [pos |-> part]
is_a(c, pattern) == c.pos = pattern.pos

IsPrefix(a, b) == Len(a) <= Len(b) /\ SubSeq(b, 1, Len(a)) = a

\* Index of the first ch in s after position from, 0 if there is none.
FirstIndex(s, ch, from) ==
  IF \E i \in (from + 1)..Len(s) : s[i] = ch
  THEN MinOf({i \in (from + 1)..Len(s) : s[i] = ch}) ELSE 0

AppendRegexCommand(into, what) ==
  [cls |-> "AppendRegexCommand", into |-> Control(into), what |-> Control(what),
   stay |-> Control(<<>>)]
OneCommand(stay) ==
  [cls |-> "OneCommand", into |-> Control(<<>>), what |-> Control(<<>>),
   stay |-> Control(stay)]
VerbCommand ==
  [cls |-> "VerbCommand", into |-> Control(<<>>), what |-> Control(<<>>),
   stay |-> Control(<<>>)]
\* get_instance falls off its end: the command is None.
NoCommand ==
  [cls |-> "None", into |-> Control(<<>>), what |-> Control(<<>>),
   stay |-> Control(<<>>)]

\* Command.get_instance.  re.match anchors at the start of type_str only:
\* "([^\[]*)\[([^\]]*)\]" takes what precedes the first "[" and what lies
\* between it and the next "]"; "|".join(terminals) takes the first terminal,
\* in list order, that type_str starts with.
get_instance(type_str, terminals) ==
  LET lb == FirstIndex(type_str, "[", 0)
      rb == IF lb = 0 THEN 0 ELSE FirstIndex(type_str, "]", lb)
      alts == {i \in 1..Len(terminals) : IsPrefix(terminals[i], type_str)}
  IN IF lb # 0 /\ rb # 0
     THEN AppendRegexCommand(SubSeq(type_str, 1, lb - 1),
                             SubSeq(type_str, lb + 1, rb - 1))
     ELSE IF alts # {} THEN OneCommand(terminals[MinOf(alts)])
     ELSE IF type_str = <<"*">> THEN VerbCommand
     ELSE NoCommand

\* Results of __match__ and of do(); ran tells that do() went on to line 148,
\* self.command.run(pairs).
MatchFalse == [kind |-> "false", pairs |-> <<>>]
MatchRaise == [kind |-> "raise", pairs |-> <<>>]
MatchPairs(pairs) == [kind |-> "pairs", pairs |-> pairs]
DoResult(kind, val, exc, ran) ==
  [kind |-> kind, val |-> val, exc |-> exc, ran |-> ran]

\* Pairs every machine with the first control of the rule.
FirstControl(rule, ms) == [m \in Range(ms) |-> SubSeq(rule, 1, 1)]

\* Lines 116-121: the controls of the rule every machine is_a.
possible_pairs(rule, ms) ==
  [m \in Range(ms) |-> SelectSeq(rule, LAMBDA c : is_a(Control(pos[m]), c))]

\* A match that never raises: a machine with several slots takes the first.
RECURSIVE MatchFirstSlot(_, _, _, _, _)
MatchFirstSlot(rule, pp, order, i, pairs) ==
  IF i > Len(order)
  THEN IF Cardinality(DOMAIN pairs) # Len(rule) THEN MatchFalse
       ELSE MatchPairs(pairs)
  ELSE IF Len(pp[order[i]]) = 0 THEN MatchFalse
  ELSE The({MatchFirstSlot(rule, pp, order, i + 1, q) :
              q \in {[c \in DOMAIN pairs \cup {pp[order[i]][1]} |->
                        IF c = pp[order[i]][1] THEN order[i] ELSE pairs[c]]}})

\* Lines 123-141: the loop over possible_pairs.items(), in the order of the
\* dict, and the test that follows it.
RECURSIVE MatchFrom(_, _, _, _, _)
MatchFrom(rule, pp, order, i, pairs) ==
  IF i > Len(order)
  THEN IF Cardinality(DOMAIN pairs) # Len(rule) THEN MatchFalse
       ELSE MatchPairs(pairs)
  ELSE IF Len(pp[order[i]]) > 1 THEN MatchRaise
  ELSE IF Len(pp[order[i]]) = 0 THEN MatchFalse
  ELSE IF \E c \in DOMAIN pairs : pairs[c] = order[i] THEN MatchFalse
  ELSE The({MatchFrom(rule, pp, order, i + 1, q) :
              q \in {[c \in DOMAIN pairs \cup {pp[order[i]][1]} |->
                        IF c = pp[order[i]][1] THEN order[i] ELSE pairs[c]]}})

\* Construction.__match__
__match__(rule, ms) ==
  IF Len(ms) # Len(rule) THEN MatchFalse
  ELSE The({MatchFrom(rule, pp, SetToSeq(DOMAIN pp), 1, <<>>) :
              pp \in {possible_pairs(rule, ms)}})

\* Command.run of the three commands, and of no command.
run(cmd, pairs) ==
  CASE cmd.cls = "AppendRegexCommand" ->
         IF cmd.into \in DOMAIN pairs /\ cmd.what \in DOMAIN pairs
         THEN DoResult("list", <<pairs[cmd.into]>>, "", TRUE)
         ELSE DoResult("raise", <<>>, "KeyError", TRUE)
    [] cmd.cls = "OneCommand" ->
         DoResult("list",
                  SelectSeq(SetToSeq({pairs[c] : c \in DOMAIN pairs}),
                            LAMBDA m : \E c \in DOMAIN pairs :
                                          c = cmd.stay /\ pairs[c] = m),
                  "", TRUE)
    [] cmd.cls = "VerbCommand" -> DoResult("none", <<>>, "", TRUE)
    [] OTHER -> DoResult("raise", <<>>, "AttributeError", TRUE)

\* Construction.do
do(rule, cmd, ms) ==
  The({IF mt.kind = "raise"
       THEN DoResult("raise", <<>>, "NotImplementedError", FALSE)
       ELSE IF mt.kind = "false" \/ DOMAIN mt.pairs = {}
       THEN DoResult("none", <<>>, "", FALSE)
       ELSE run(cmd, mt.pairs) : mt \in {__match__(rule, ms)}})

\* pairs[self.into].append(1, pairs[self.what]) of AppendRegexCommand.run
Appended(cmd, rule, ms, parts) ==
  The({IF cmd.cls = "AppendRegexCommand" /\ mt.kind = "pairs"
          /\ cmd.into \in DOMAIN mt.pairs /\ cmd.what \in DOMAIN mt.pairs
       THEN [parts EXCEPT ![mt.pairs[cmd.into]] = @ \cup {mt.pairs[cmd.what]}]
       ELSE parts : mt \in {__match__(rule, ms)}})

\* The machine sequences do() is called with.
MachineSeqs ==
  UNION {{q \in [1..n -> Units] : \A i, j \in 1..n : i # j => q[i] # q[j]} :
           n \in 0..NUnits}

SimpleIdle ==
  /\ spc = "idle"
  /\ def_rule = <<>> /\ def_code = <<>>
  /\ pos = [u \in Units |-> <<>>]
  /\ rule_right = <<>> /\ command = NoCommand
  /\ machines = <<>>
  /\ result = DoResult("none", <<>>, "", FALSE)
  /\ part1 = [u \in Units |-> {}]

(***************************************************************************)
(* activation_loop                                                         *)
(***************************************************************************)
\* lexicon.get_unexpanded()
get_unexpanded(known, expanded) == known \ expanded

\* The check() calls of the search for construction kind over the candidates
\* cands[lo..hi] in order: the control state threaded through them and the
\* accepted list.  The range is run as its first half followed by its second.
RECURSIVE CheckAll(_, _, _, _, _, _)
CheckAll(kind, cands, lo, hi, st, acc) ==
  IF lo > hi THEN [st |-> st, accepted |-> acc]
  ELSE IF lo = hi
  THEN The({[st |-> r.st,
             accepted |-> IF r.res THEN Append(acc, cands[lo]) ELSE acc] :
              r \in {check(kind, st, cands[lo])}})
  ELSE The({CheckAll(kind, cands, ((lo + hi) \div 2) + 1, hi, l.st, l.accepted) :
              l \in {CheckAll(kind, cands, lo, (lo + hi) \div 2, st, acc)}})

\* A commit that removes nothing.
RemoveNone(S, seq, i) == [ok |-> TRUE, set |-> S]

\* for m in seq: sentence.remove(m), which raises KeyError on a unit that is
\* not in the set.
RECURSIVE RemoveAll(_, _, _)
RemoveAll(S, seq, i) ==
  IF i > Len(seq) THEN [ok |-> TRUE, set |-> S]
  ELSE IF seq[i] \notin S THEN [ok |-> FALSE, set |-> S]
  ELSE The({RemoveAll(T, seq, i + 1) : T \in {S \ {seq[i]}}})

\* for m in c_res: sentence.add(m)
AddAll(S, res) == S \cup Range(res)

\* A Step 1 that expands nothing.
ExpandNothing(expanded, unexp) == expanded

\* for machine in unexpanded: self.lexicon.expand(machine)
ExpandAll(expanded, unexp) == expanded \cup unexp

\* while len(unexpanded) > 0
WhileCond(unexp) == unexp # {}

\* A break taken whatever the number of active entries.
LoopBreakAlways(active, last) == TRUE

\* if len(self.lexicon.active) == last_active: break
LoopBreak(active, last) == active = last

\* A working set that starts empty.
InitSentenceEmpty(unexp) == {}

\* sentence = set(unexpanded)
InitSentence(unexp) == unexp

\* A search given up at the first None.
DelEvery(acc) == <<>>

\* del accepted[-1]
DelLast(acc) == SubSeq(acc, 1, Len(acc) - 1)

\* A Step 1 that registers no holder.
RegisterNothing(lnk, expanded) == lnk

\* The holders of linker after Step 1 has registered those of the expanded
\* units that have it on one of partitions[1:].
Register(lnk, expanded) ==
  [a \in Anchors |->
     lnk[a] \cup {m \in expanded :
                    \E p \in PartIdx : a \in StaticDef(tags[m])[p]}]

\* A Step 2 that resolves no linker.
ResolvedNever(lnk) == {}

\* _link for every linker held by more than one machine.
Resolved(lnk) == {a \in Anchors : Cardinality(lnk[a]) > 1}

\* A _link that leaves the linker on the partition.
LinkAnchKeep(lnk, m, p) == anch[m][p]

\* machine.remove(linker, partition), for every linker resolved.
LinkAnch(lnk, m, p) ==
  anch[m][p] \ {a \in Resolved(lnk) : m \in lnk[a]}

\* machine.append_if_not_there(to_add, partition), for every linker resolved.
LinkLinks(lnk, m, p) ==
  links[m][p] \cup
    UNION {lnk[a] \ {m} : a \in {b \in Resolved(lnk) :
                                   m \in lnk[b] /\ b \in anch[m][p]}}

ConstructionLists == {<<"verb", "np">>, <<"np", "avm", "verb">>}

\* The state activation_loop starts in, for a verb construction whose roles
\* are one of lists and the index of the current construction one of cis.
LoopInitOver(lists, cis) ==
  /\ tags \in [Units -> Tags]
  /\ constructions \in ConstructionLists
  /\ arguments \in lists
  /\ lexActive \in 0..MaxActive
  /\ lexKnown \in SUBSET Units
  /\ lexExpanded = {}
  /\ anch = [u \in AllUnits |-> [p \in PartIdx |-> {}]]
  /\ links = [u \in AllUnits |-> [p \in PartIdx |-> {}]]
  /\ pc = "while"
  /\ last_active = lexActive
  /\ unexpanded = get_unexpanded(lexKnown, lexExpanded)
  /\ sentence = InitSentence(unexpanded)
  /\ linking = [a \in Anchors |-> {}]
  /\ ci \in cis
  /\ accepted = <<>>
  /\ c_res = None
  /\ ctl = [k \in {"verb", "np"} |-> 0]
  /\ working_area = [verb |-> NoUnit, roles |-> [r \in Anchors |-> NoUnit]]
  /\ activated = FALSE
  /\ avm = [k \in AvmKeys |-> NoUnit]
  /\ opsRun = 0
  /\ acts = <<>>
  /\ fired = FALSE
  /\ changed = FALSE
  /\ initial = unexpanded
  /\ consumed = {}
  /\ linkCalls = [a \in Anchors |-> <<>>]

LoopInit == LoopInitOver(ArgumentLists, {0})

NoCall == [fn |-> "none", kind |-> "", seq |-> <<>>, res |-> FALSE,
           state |-> 0, rep |-> 0]

\* control = FST(): nothing added yet.
NoControl == [calls |-> <<>>, transitions |-> {}]

Init == LoopInit /\ SimpleIdle /\ LcIdle /\ call = NoCall /\ control = NoControl

lexVars == <<tags, constructions, arguments, lexActive, lexKnown>>
unitVars == <<anch, links>>
cVars == <<ctl, working_area, activated, avm>>

\* Line 26: the loop test.
WhileTest ==
  /\ pc = "while"
  /\ pc' = IF WhileCond(unexpanded) THEN "expand" ELSE "done"
  /\ UNCHANGED auxVars
  /\ UNCHANGED <<linkCalls, lexVars, lexExpanded, unitVars, cVars, last_active,
                 unexpanded, sentence, linking, ci, accepted, c_res, opsRun,
                 acts, fired, changed, initial, consumed>>

\* Where the loop goes after construction number i.
AfterConstruction(i) == IF i < Len(constructions) THEN "search" ELSE "link"

\* Lines 35-44, Step 1: expand every unexpanded unit and register its deep
\* cases in the linking map.
Step1Expansion ==
  /\ pc = "expand"
  /\ lexExpanded' = ExpandAll(lexExpanded, unexpanded)
  /\ anch' = [u \in AllUnits |->
                IF u \in unexpanded THEN StaticDef(tags[u]) ELSE anch[u]]
  /\ linking' = Register(linking, unexpanded)
  /\ pc' = AfterConstruction(0)
  /\ ci' = IF Len(constructions) > 0 THEN 1 ELSE 0
  /\ UNCHANGED auxVars
  /\ UNCHANGED <<linkCalls, lexVars, links, cVars, last_active, unexpanded, sentence,
                 accepted, c_res, opsRun, acts, fired, changed, initial,
                 consumed>>

\* Lines 52-55: the checks of every candidate sequence for a construction of
\* this kind, starting from the state its control is in.
SearchResult(kind) ==
  The({CheckAll(kind, cands, 1, Len(cands),
                [state |-> IF kind = "avm" THEN 0 ELSE ctl[kind],
                 wa |-> working_area, nops |-> 0],
                <<>>) : cands \in {Candidates(sentence)}})

\* Lines 49-61: check every candidate sequence, sort the accepted ones.
Search ==
  /\ pc = "search"
  /\ \E r \in {SearchResult(constructions[ci])} :
        /\ accepted' = SortByLen(r.accepted)
        /\ ctl' = IF constructions[ci] = "avm" THEN ctl
                  ELSE [ctl EXCEPT ![constructions[ci]] = r.st.state]
        /\ working_area' = r.st.wa
        /\ opsRun' = r.st.nops
  /\ acts' = <<>>
  /\ pc' = "act"
  /\ UNCHANGED auxVars
  /\ UNCHANGED <<linkCalls, lexVars, lexExpanded, unitVars, activated, avm, last_active,
                 unexpanded, sentence, linking, ci, c_res, fired, changed,
                 initial, consumed>>

\* c.act(seq) for the kind of c: the result and the construction's state.
ActResults(kind, seq) ==
  CASE kind = "verb" ->
         LET r == Construction_act(VerbControl,
                    [state |-> ctl[kind], wa |-> working_area, nops |-> 0], seq)
         IN {[res |-> r.res, state |-> r.st.state, wa |-> r.st.wa,
              nops |-> r.st.nops, avm |-> avm]}
    [] kind = "np" ->
         {[res |-> x, state |-> ctl[kind], wa |-> working_area, nops |-> 0,
           avm |-> avm] : x \in NPConstruction_act(seq)}
    [] OTHER ->
         {[res |-> Some(<<AVMU>>), state |-> 0, wa |-> working_area,
           nops |-> 0, avm |-> AVMConstruction_act(avm, seq, 1)]}

\* Lines 65-77, one pass of the while loop: act on the last accepted
\* sequence; commit and leave the loop on a result, drop the sequence on None.
Act ==
  /\ pc = "act"
  /\ accepted # <<>>
  /\ LET kind == constructions[ci]
         seq == accepted[Len(accepted)]
     IN \E a \in ActResults(kind, seq) :
          /\ c_res' = a.res
          /\ ctl' = IF kind = "avm" THEN ctl ELSE [ctl EXCEPT ![kind] = a.state]
          /\ working_area' = a.wa
          /\ avm' = a.avm
          /\ opsRun' = a.nops
          /\ acts' = Append(acts, [kind |-> kind, seq |-> seq, res |-> a.res,
                                   nops |-> a.nops])
          /\ fired' = (fired \/ kind = "verb")
          /\ IF a.res.none
             THEN /\ accepted' = DelLast(accepted)
                  /\ pc' = "act"
                  /\ UNCHANGED <<sentence, ci, consumed>>
             ELSE LET rm == RemoveAll(sentence, seq, 1)
                  IN IF rm.ok
                     THEN /\ sentence' = AddAll(rm.set, a.res.val)
                          /\ consumed' = consumed \cup Range(seq)
                          /\ pc' = AfterConstruction(ci)
                          /\ ci' = IF ci < Len(constructions) THEN ci + 1 ELSE ci
                          /\ UNCHANGED accepted
                     ELSE /\ sentence' = rm.set
                          /\ pc' = "error"
                          /\ UNCHANGED <<accepted, ci, consumed>>
  /\ UNCHANGED auxVars
  /\ UNCHANGED <<linkCalls, lexVars, lexExpanded, unitVars, activated, last_active,
                 unexpanded, linking, changed, initial>>

\* Line 65 with accepted empty: the construction is done with.
NoMoreAccepted ==
  /\ pc = "act"
  /\ accepted = <<>>
  /\ pc' = AfterConstruction(ci)
  /\ ci' = IF ci < Len(constructions) THEN ci + 1 ELSE ci
  /\ UNCHANGED auxVars
  /\ UNCHANGED <<linkCalls, lexVars, lexExpanded, unitVars, cVars, last_active,
                 unexpanded, sentence, linking, accepted, c_res, opsRun, acts,
                 fired, changed, initial, consumed>>

\* Lines 82-88, Step 2: link along every linker held by more than one
\* machine and delete it from the map.
Step2Linking ==
  /\ pc = "link"
  /\ anch' = [m \in AllUnits |-> [p \in PartIdx |-> LinkAnch(linking, m, p)]]
  /\ links' = [m \in AllUnits |-> [p \in PartIdx |-> LinkLinks(linking, m, p)]]
  /\ linking' = [a \in Anchors |->
                   IF a \in Resolved(linking) THEN {} ELSE linking[a]]
  /\ linkCalls' = [a \in Anchors |->
                     IF a \in Resolved(linking)
                     THEN Append(linkCalls[a], linking[a]) ELSE linkCalls[a]]
  /\ pc' = "activate"
  /\ UNCHANGED auxVars
  /\ UNCHANGED <<lexVars, lexExpanded, cVars, last_active, unexpanded,
                 sentence, ci, accepted, c_res, opsRun, acts, fired, changed,
                 initial, consumed>>

\* Lines 91-96, Step 3: the lexicon activates further units and recomputes
\* its active entries; the loop ends if their number did not change.
Step3Activation ==
  /\ pc = "activate"
  /\ \E new \in SUBSET (Units \ lexKnown), n \in 0..MaxActive :
       /\ lexKnown' = lexKnown \cup new
       /\ lexActive' = n
       /\ unexpanded' = get_unexpanded(lexKnown', lexExpanded)
       /\ changed' = (n # last_active)
       /\ IF LoopBreak(n, last_active)
          THEN pc' = "done" /\ UNCHANGED last_active
          ELSE pc' = "while" /\ last_active' = n
  /\ UNCHANGED auxVars
  /\ UNCHANGED <<linkCalls, tags, constructions, arguments, lexExpanded, unitVars, cVars,
                 sentence,
                 linking, ci, accepted, c_res, opsRun, acts, fired, initial,
                 consumed>>

Next ==
  \/ WhileTest
  \/ Step1Expansion
  \/ Search
  \/ Act
  \/ NoMoreAccepted
  \/ Step2Linking
  \/ Step3Activation

Spec == Init /\ [][Next]_vars

\* The loop is one sequential program: it always takes its next step.
FairSpec == Spec /\ WF_vars(Next)

(***************************************************************************)
(* Simple constructions: definition lines are built and do() is called     *)
(***************************************************************************)
\* The loop at rest: activation_loop is not running.
LoopIdle ==
  /\ LoopInit
  /\ tags = [u \in Units |-> "VERB"]
  /\ constructions = <<"verb", "np">>
  /\ arguments = <<"AGT">>
  /\ lexActive = 0
  /\ lexKnown = {}

\* read_constructions has split a line into its fields.
SimpleInit ==
  /\ LoopIdle /\ LcIdle /\ call = NoCall /\ control = NoControl
  /\ spc = "new"
  /\ def_rule \in Rules
  /\ def_code \in Codes
  /\ pos \in [Units -> Terminals]
  /\ rule_right = <<>> /\ command = NoCommand
  /\ machines = <<>>
  /\ result = DoResult("none", <<>>, "", FALSE)
  /\ part1 = [u \in Units |-> {}]

\* Construction.__init__ (lines 99-102)
Build ==
  /\ spc = "new"
  /\ rule_right' = [i \in 1..Len(def_rule) |-> Control(def_rule[i])]
  /\ command' = get_instance(def_code, def_rule)
  /\ spc' = "built"
  /\ UNCHANGED <<def_rule, def_code, pos, machines, result, part1>>
  /\ UNCHANGED <<loopVars, lcVars, call, control>>

\* Construction.do(machines) (lines 143-148).  One call is followed for every
\* construction built: do() reads rule_right, command and the controls of the
\* machines, none of which a call changes.
Do ==
  /\ spc = "built"
  /\ \E ms \in MachineSeqs :
       /\ machines' = ms
       /\ result' = do(rule_right, command, ms)
       /\ part1' = Appended(command, rule_right, ms, part1)
  /\ spc' = "done"
  /\ UNCHANGED <<def_rule, def_code, pos, rule_right, command>>
  /\ UNCHANGED <<loopVars, lcVars, call, control>>

SimpleNext == Build \/ Do

SimpleSpec == SimpleInit /\ [][SimpleNext]_vars

(***************************************************************************)
(* check() and act() of the constructions called in any order              *)
(***************************************************************************)
\* The roles of the verb construction: none, one, or two in either order.
CallArgumentLists ==
  {<<>>, <<"AGT">>, <<"PAT">>, <<"AGT", "PAT">>, <<"PAT", "AGT">>}

TagRank(tag) == IF tag = "VERB" THEN 1 ELSE IF tag = "NOUN_NOM" THEN 2 ELSE 3

\* The construction c the calls are made on is constructions[ci].  The
\* sequences range over every order of the units: the tags are given to the
\* units in one order.
CallInit ==
  /\ LoopInitOver(CallArgumentLists, 1..3)
  /\ \A u, v \in Units : u < v => TagRank(tags[u]) <= TagRank(tags[v])
  /\ constructions = <<"np", "avm", "verb">>
  /\ lexActive = 0
  /\ lexKnown = {}
  /\ SimpleIdle /\ LcIdle
  /\ call = NoCall /\ control = NoControl

callFrame == <<tags, constructions, arguments, lexActive, lexKnown,
               lexExpanded, anch, links, pc, last_active, unexpanded,
               sentence, linking, ci, accepted, c_res, activated, acts, fired,
               changed, initial, consumed, linkCalls, simpleVars, lcVars,
               control>>

\* c.check(seq) for some sequence.
CallCheck ==
  /\ \E kind \in {constructions[ci]}, seq \in MachineSeqs :
       \E r \in {check(kind, [state |-> IF kind = "avm" THEN 0 ELSE ctl[kind],
                               wa |-> working_area, nops |-> 0], seq)} :
          /\ ctl' = IF kind = "avm" THEN ctl
                    ELSE [ctl EXCEPT ![kind] = r.st.state]
          /\ working_area' = r.st.wa
          /\ opsRun' = r.st.nops
          /\ call' = [fn |-> "check", kind |-> kind, seq |-> seq,
                      res |-> r.res, state |-> r.st.state,
                      rep |-> IF call.fn = "check" /\ call.kind = kind
                                    /\ call.seq = seq
                              THEN 2 ELSE 1]
  /\ UNCHANGED avm
  /\ UNCHANGED callFrame

\* c.act(seq) for the sequence c has just accepted, as activation_loop and
\* run() call it.
CallAct ==
  /\ call.fn = "check" /\ call.res
  /\ call.seq # <<>>
  /\ \E kind \in {constructions[ci]}, seq \in {call.seq} :
       \E a \in ActResults(kind, seq) :
          /\ ctl' = IF kind = "avm" THEN ctl ELSE [ctl EXCEPT ![kind] = a.state]
          /\ working_area' = a.wa
          /\ avm' = a.avm
          /\ opsRun' = a.nops
          /\ call' = [fn |-> "act", kind |-> kind, seq |-> seq,
                      res |-> ~a.res.none, state |-> a.state, rep |-> 1]
  /\ UNCHANGED callFrame

CallNext == CallCheck \/ CallAct

CallSpec == CallInit /\ [][CallNext]_vars

(***************************************************************************)
(* generate_control, one add_transition call at a time                     *)
(***************************************************************************)
\* The most roles discover_arguments finds in a definition.
MaxRoles == 3

\* Deep cases and a supplementary pattern a definition can hold.
GenRoles == {"AGT", "PAT", "DAT", "$x"}

\* self.matchers.keys(): up to MaxRoles roles, in any order.
GenArgumentLists ==
  UNION {{q \in [1..n -> GenRoles] : \A i, j \in 1..n : i # j => q[i] # q[j]} :
           n \in 0..MaxRoles}

\* The matcher object a transition is added with: self.matchers[arg], one
\* object per role (NoArg stands for the matcher of the VERB transition).
MatcherOf(t) == t.ops[1].arg

\* FST.add_transition: the transitions are a map from (state, matcher).
add_transition(T, t) ==
  {x \in T : ~(x.src = t.src /\ MatcherOf(x) = MatcherOf(t))} \cup {t}

\* VerbConstruction.__init__ after discover_arguments, control = FST().
GenInit ==
  /\ LoopInitOver(GenArgumentLists, {0})
  /\ tags = [u \in Units |-> "VERB"]
  /\ constructions = <<"verb", "np">>
  /\ lexActive = 0
  /\ lexKnown = {}
  /\ SimpleIdle /\ LcIdle
  /\ call = NoCall /\ control = NoControl

\* The n-th add_transition call of generate_control.
AddTransition(n) ==
  /\ \E t \in {VerbControl.trans[n]} :
       control' = [calls |-> Append(control.calls, t),
                   transitions |-> add_transition(control.transitions, t)]
  /\ UNCHANGED <<loopVars, simpleVars, lcVars, call>>

\* Lines 177-178: the transition of the verb.
FirstTransition ==
  /\ control.calls = <<>>
  /\ AddTransition(1)

\* Lines 181-192: the next transition of the permutation loop.
NextTransition ==
  /\ control.calls # <<>>
  /\ Len(control.calls) < Len(VerbControl.trans)
  /\ AddTransition(Len(control.calls) + 1)

GenNext == FirstTransition \/ NextTransition

GenSpec == GenInit /\ [][GenNext]_vars

(***************************************************************************)
(* last_check called on the patterns of a rule and the kr maps of a        *)
(* sequence                                                                *)
(***************************************************************************)
LastCheckInit ==
  /\ LoopIdle /\ SimpleIdle /\ call = NoCall /\ control = NoControl
  /\ lc_patterns \in [1..2 -> PatternPool]
  /\ lc_krs \in [1..2 -> KrPool]
  /\ lc_res = "-"

\* NPConstruction.last_check(seq) (lines 86-103)
LastCheck ==
  /\ lc_res = "-"
  /\ lc_res' = IF last_check(lc_patterns, lc_krs) THEN "True" ELSE "False"
  /\ UNCHANGED <<lc_patterns, lc_krs>>
  /\ UNCHANGED <<loopVars, simpleVars, call, control>>

LastCheckNext == LastCheck

LastCheckSpec == LastCheckInit /\ [][LastCheckNext]_vars

(***************************************************************************)
(* Properties                                                              *)
(***************************************************************************)

C2_StopsOnlyWhenBoth == pc = "done" => (unexpanded = {} /\ ~changed)

\* C2 amended: the loop stops only when nothing is unexpanded or the number
\* of active entries did not change in the last iteration.
C2_StopsWhenEither == pc = "done" => (unexpanded = {} \/ ~changed)

\* The loop ran and stopped.
C2_Witness == pc = "done" /\ lexExpanded # {}

\* Some variable of the chunk rule is bound to more than one value by seq.
BindingConflict(seq) ==
  \E v \in {"@x", "@y"} :
     Cardinality(UNION {{UnitKR(seq[i])[k] :
                           k \in {k2 \in DOMAIN NPPatterns[i] :
                                    NPPatterns[i][k2] = v}} :
                        i \in 1..Len(seq)}) > 1

\* C3: once act() of the verb construction has been executed, every later
\* check() returns False, so a later search accepts nothing.
C3_Exclusive ==
  [][(pc = "search" /\ constructions[ci] = "verb" /\ fired)
       => accepted' = <<>>]_vars

\* C4: act() of the verb construction returns the one-element sequence
\* holding the working-area unit, never None.
C4_ActReturnsWorkingArea ==
  \A i \in 1..Len(acts) :
     acts[i].kind = "verb" => acts[i].res = Some(<<WA>>)

\* C5: only the committed sequence is run with effects: an act() that
\* executed transition operators returned a result.
C5_OnlyWinnerEffecting ==
  \A i \in 1..Len(acts) : acts[i].nops > 0 => ~acts[i].res.none

\* C6: the checks of a search execute no transition operator and change
\* neither the units nor the working area nor the working set.
C6_CheckIsDryRun ==
  [][pc = "search"
       => /\ opsRun' = 0
          /\ working_area' = working_area
          /\ anch' = anch /\ links' = links
          /\ avm' = avm /\ activated' = activated
          /\ sentence' = sentence]_vars

\* A search of the verb construction accepted a sequence: its checks took
\* the transitions that carry operators, after an earlier act() had filled
\* the working area.
C6_Witness ==
  /\ pc = "act" /\ acts = <<>> /\ accepted # <<>>
  /\ constructions[ci] = "verb"
  /\ working_area.verb # NoUnit

\* C7: act() is never called on a sequence for the chunk construction that
\* binds a pattern variable to two values.
C7_NoActOnBindingConflict ==
  \A i \in 1..Len(acts) :
     acts[i].kind = "np" => ~BindingConflict(acts[i].seq)

\* C8 as stated: every unit expanded in an iteration is in the working set,
\* or was consumed, when that iteration's construction search begins.
C8_ExpandedInWorkingSet ==
  (pc = "search" /\ ci = 1) => unexpanded \subseteq (sentence \cup consumed)

\* C8 amended: the units expanded in the first iteration are in the working
\* set when its construction search begins, and the working set never holds
\* a lexicon unit other than those the first get_unexpanded() gave.
C8_InitialUnitsOnly ==
  /\ (pc = "search" /\ ci = 1 /\ lexExpanded = initial)
       => unexpanded \subseteq sentence
  /\ (sentence \cap Units) \subseteq initial

\* A later iteration's search begins with an expanded unit that is not in
\* the working set.
C8_Witness ==
  /\ pc = "search" /\ ci = 1
  /\ initial # {}
  /\ unexpanded # {} /\ unexpanded \cap (sentence \cup consumed) = {}

\* C9: an act() that returns a result is the first of its construction to do
\* so in the iteration; its units are all in the working set, which becomes
\* itself minus those units plus the result, and the loop leaves the
\* construction.
C9_CommitsFirstResult ==
  [][(pc = "act" /\ Len(acts') = Len(acts) + 1 /\ ~c_res'.none)
       => /\ Range(accepted[Len(accepted)]) \subseteq sentence
          /\ sentence' = (sentence \ Range(accepted[Len(accepted)]))
                            \cup Range(c_res'.val)
          /\ \A i \in 1..Len(acts) : acts[i].res.none
          /\ pc' \in {"search", "link"}
          /\ (pc' = "search" => ci' = ci + 1)]_vars

\* A construction committed a sequence after act() had returned None for
\* another one.
C9_Witness ==
  /\ pc \in {"search", "link"}
  /\ Len(acts) > 1
  /\ ~acts[Len(acts)].res.none
  /\ consumed # {}

\* C10: an act() that returns None leaves the working set as it is and the
\* loop goes on with the next accepted sequence; when none is left the loop
\* goes on to the next construction, the working set unchanged.
C10_NoneTriesNext ==
  [][/\ (pc = "act" /\ Len(acts') = Len(acts) + 1 /\ c_res'.none)
          => /\ sentence' = sentence
             /\ accepted' = SubSeq(accepted, 1, Len(accepted) - 1)
             /\ pc' = "act" /\ ci' = ci
     /\ (pc = "act" /\ accepted = <<>>)
          => /\ sentence' = sentence
             /\ pc' \in {"search", "link"}]_vars

\* Every accepted sequence of a construction, more than one, returned None.
C10_Witness ==
  /\ pc = "act" /\ accepted = <<>>
  /\ Len(acts) > 1
  /\ \A i \in 1..Len(acts) : acts[i].res.none

\* C11: a search checks every candidate before any act(); act() is always
\* called on a longest sequence not yet tried; linking starts only after the
\* last construction is done with, and the lexicon activates only after
\* linking.
C11_LongestFirst ==
  [][/\ pc = "search"
          => /\ Range(accepted') =
                  {c \in Range(Candidates(sentence)) :
                     check(constructions[ci],
                           [state |-> IF constructions[ci] = "avm" THEN 0
                                      ELSE ctl[constructions[ci]],
                            wa |-> working_area, nops |-> 0], c).res}
             /\ acts' = <<>> /\ pc' = "act"
     /\ (pc = "act" /\ accepted # <<>>)
          => /\ \A i \in 1..Len(accepted) :
                   Len(accepted[i]) <= Len(accepted[Len(accepted)])
             /\ acts' # acts
                  => acts'[Len(acts')].seq = accepted[Len(accepted)]
     /\ pc' = "link" => (pc = "act" /\ ci = Len(constructions))
     /\ pc' = "activate" => pc = "link"
     /\ (lexKnown' # lexKnown \/ lexActive' # lexActive) => pc = "activate"
    ]_vars

\* A construction acted on the longest of accepted sequences of different
\* lengths.
C11_Witness ==
  /\ pc \in {"search", "link"}
  /\ Len(acts) = 1
  /\ \E i \in 1..Len(accepted) : Len(accepted[i]) < Len(acts[1].seq)

\* C12: after link resolution every linker of the map has fewer than two
\* holders; a linker is deleted from the map exactly at a link resolution
\* at which it has two or more holders.
C12_LinkingMap ==
  [][/\ pc \in {"activate", "while", "done"}
          => \A a \in Anchors : Cardinality(linking[a]) < 2
     /\ pc = "link"
          => \A a \in Anchors :
                (linking[a] # {} /\ linking'[a] = {})
                   <=> Cardinality(linking[a]) >= 2
     /\ pc # "link" => \A a \in Anchors : linking[a] \subseteq linking'[a]
    ]_vars

\* A link resolution deleted one linker and kept another, held by one unit.
C12_Witness ==
  /\ pc = "activate"
  /\ \E a \in Anchors : Cardinality(linking[a]) = 1
  /\ \E b \in Anchors : linkCalls[b] # <<>>

\* The units that were expanded with the deep case a on a partition.
Holders(a) ==
  {m \in lexExpanded : \E p \in PartIdx : a \in StaticDef(tags[m])[p]}

\* C13: a linker held by exactly two units gets exactly one _link call,
\* with those two units, at the link resolution of the iteration in which
\* the second was expanded; a linker held by one unit gets none.
C13_LinkedOnce ==
  \A a \in Anchors :
     /\ Cardinality(Holders(a)) < 2 => linkCalls[a] = <<>>
     /\ Cardinality(Holders(a)) = 2
          => /\ Len(linkCalls[a]) <= 1
             /\ pc \in {"activate", "while", "done"}
                  => linkCalls[a] = <<Holders(a)>>

\* The run ended with a linker linked once, its two holders having been
\* expanded in different iterations.
C13_Witness ==
  /\ pc = "done"
  /\ \E a \in Anchors :
       /\ Cardinality(Holders(a)) = 2
       /\ linkCalls[a] = <<Holders(a)>>
       /\ Holders(a) \cap initial # {}
       /\ Holders(a) \ initial # {}

\* C14: link resolution of a linker held by exactly U and V deletes it from
\* the map, removes it from every partition of U and V, and puts V on the
\* partitions of U that held it and U on those of V; no unit is put on its
\* own partition.
C14_Converges ==
  [][pc = "link"
       => \A a \in Anchors, U \in Units, V \in Units :
            (U # V /\ linking[a] = {U, V})
              => /\ linking'[a] = {}
                 /\ \E p \in PartIdx : a \in anch[U][p]
                 /\ \E p \in PartIdx : a \in anch[V][p]
                 /\ \A p \in PartIdx :
                      /\ a \notin anch'[U][p] /\ a \notin anch'[V][p]
                      /\ a \in anch[U][p] => V \in links'[U][p]
                      /\ a \in anch[V][p] => U \in links'[V][p]
                      /\ U \notin links'[U][p] /\ V \notin links'[V][p]
    ]_vars

\* Two units were linked to each other along a linker.
C14_Witness ==
  /\ pc = "activate"
  /\ \E a \in Anchors, U \in Units, V \in Units :
       /\ U # V /\ linkCalls[a] = <<{U, V}>>
       /\ \E p \in PartIdx : V \in links[U][p]
       /\ \E p \in PartIdx : U \in links[V][p]

\* The slots of the rule the control of machine m satisfies.
Slots(m) ==
  {j \in 1..Len(rule_right) : is_a(Control(pos[m]), rule_right[j])}

\* There is a bijection between the machines and the slots of the rule in
\* which every machine satisfies exactly one slot.
Bijection(ms) ==
  /\ Len(ms) = Len(rule_right)
  /\ \A i \in 1..Len(ms) : Cardinality(Slots(ms[i])) = 1
  /\ \A i, j \in 1..Len(ms) : i # j => Slots(ms[i]) # Slots(ms[j])

\* Some machine of ms satisfies more than one slot, and every machine the
\* dict of __match__ gives before it satisfies exactly one.
FirstOddIsAmbiguous(ms) ==
  /\ Len(ms) = Len(rule_right)
  /\ \E m \in Range(ms) :
       /\ Cardinality(Slots(m)) > 1
       /\ \A n \in Range(ms) : n < m => Cardinality(Slots(n)) = 1

\* C15 as stated: do() runs the command if the bijection exists; if not it
\* returns None without running the command or changing a unit.
C15_MatchIffBijection ==
  [][(spc = "built"
       => IF Bijection(machines') THEN result'.ran
          ELSE /\ result'.kind = "none" /\ ~result'.ran
               /\ part1' = part1)
    ]_vars

\* C15 amended: do() runs the command if the bijection exists; if not it
\* runs no command and changes no unit, and either returns None or, the
\* sequence having the rule's length and a machine satisfying more than one
\* slot, raises NotImplementedError.
C15_MatchOrRaise ==
  [][(spc = "built"
       => IF Bijection(machines') THEN result'.ran
          ELSE /\ ~result'.ran
               /\ part1' = part1
               /\ \/ result'.kind = "none"
                  \/ /\ result'.kind = "raise"
                     /\ result'.exc = "NotImplementedError"
                     /\ Len(machines') = Len(rule_right)
                     /\ \E i \in 1..Len(machines') :
                          Cardinality(Slots(machines'[i])) > 1)
    ]_vars

\* do() returned None for a sequence of the rule's length in which two
\* machines compete for one slot.
C15_Witness ==
  /\ spc = "done"
  /\ Len(machines) = Len(rule_right)
  /\ result.kind = "none" /\ ~result.ran
  /\ \E i, j \in 1..Len(machines) :
       /\ i # j
       /\ Cardinality(Slots(machines[i])) = 1
       /\ Slots(machines[i]) = Slots(machines[j])

\* C16 as stated: no construction is built from a rule that lets a unit
\* satisfy more than one slot, and do() never raises for an ambiguous slot.
C16_RejectedAtBuild ==
  spc \in {"built", "done"}
    => /\ \A t \in Terminals :
            Cardinality({j \in 1..Len(rule_right) :
                           is_a(Control(t), rule_right[j])}) <= 1
       /\ result.exc # "NotImplementedError"

\* C16 amended: every definition is built, with one control per terminal;
\* do() raises NotImplementedError exactly when the sequence has the rule's
\* length and the first machine that does not satisfy exactly one slot
\* satisfies more than one.
C16_RaisedInMatch ==
  [][/\ spc = "new"
          => /\ spc' = "built"
             /\ rule_right' = [i \in 1..Len(def_rule) |-> Control(def_rule[i])]
     /\ spc = "built"
          => (result'.exc = "NotImplementedError"
                <=> FirstOddIsAmbiguous(machines'))
    ]_vars

\* A construction whose rule names a terminal twice was built, and do()
\* raised NotImplementedError.
C16_Witness ==
  /\ spc = "done"
  /\ \E i, j \in 1..Len(rule_right) : i # j /\ rule_right[i] = rule_right[j]
  /\ result.exc = "NotImplementedError"

\* C17: a command code equal to a terminal of the rule gives the Keep-one
\* command of that terminal, and do() on a matching sequence returns the
\* one unit matched to it.
C17_KeepsLabel ==
  (spc \in {"built", "done"} /\ def_code \in Range(def_rule))
    => /\ command = OneCommand(def_code)
       /\ (spc = "done" /\ Bijection(machines))
            => /\ result.kind = "list" /\ Len(result.val) = 1
               /\ result.val[1] \in Range(machines)
               /\ is_a(Control(pos[result.val[1]]), Control(def_code))

\* The values the variable v is bound to: those the kr maps hold where a
\* pattern holds v, at the top of the pattern or inside a nested one.
BoundValues(v) ==
  UNION {{Get(lc_krs[i], lc_patterns[i][j].key).val :
            j \in {j2 \in 1..Len(lc_patterns[i]) :
                     ~lc_patterns[i][j2].isdict /\ lc_patterns[i][j2].val = v}}
         \cup
         UNION {{Get(Get(lc_krs[i], lc_patterns[i][j].key).sub,
                     lc_patterns[i][j].sub[k].key).val :
                   k \in {k2 \in 1..Len(lc_patterns[i][j].sub) :
                            lc_patterns[i][j].sub[k2].val = v}} :
                  j \in {j2 \in 1..Len(lc_patterns[i]) :
                           lc_patterns[i][j2].isdict}} :
          i \in 1..Len(lc_patterns)}

\* C18: for a sequence that check() accepts, last_check returns True iff no
\* pattern variable, at any key and any depth, is bound to two values.
C18_ConflictFails ==
  (/\ lc_res # "-"
   /\ \A i \in 1..Len(lc_patterns) : PatMatches(lc_patterns[i], lc_krs[i]))
    => (lc_res = "True"
          <=> \A v \in {"@x", "@y"} : Cardinality(BoundValues(v)) <= 1)

\* C19: calling check(s) twice in a row on a construction, with no act
\* between the two calls, gives the same verdict both times and leaves the
\* control in the same state after the second call as after the first,
\* whatever was checked or acted on before the first call.
C19_CheckIdempotent ==
  [][(call.fn = "check" /\ call'.fn = "check" /\ call'.kind = call.kind
        /\ call'.seq = call.seq)
       => (call'.res = call.res /\ call'.state = call.state /\ ctl' = ctl)
    ]_vars

\* The verb construction accepted the same sequence of two or more units
\* twice in a row, after an act() that ran the operators of its control.
C19_Witness ==
  /\ call.fn = "check" /\ call.rep = 2 /\ call.res
  /\ call.kind = "verb" /\ Len(call.seq) >= 2
  /\ working_area.verb # NoUnit

\* The unit u fills the role r of the verb.
Fills(u, r) == Matches(RoleMatcher(r), UnitKR(u))

\* The roles the units after the first of seq fill.
FilledBy(seq) ==
  {r \in Range(arguments) : \E i \in 2..Len(seq) : Fills(seq[i], r)}

\* A VERB unit followed by units that each fill a role no earlier unit fills.
FillsInTurn(seq) ==
  /\ seq # <<>>
  /\ tags[seq[1]] = "VERB"
  /\ \A i \in 2..Len(seq) :
       \E r \in Range(arguments) :
          /\ Fills(seq[i], r)
          /\ \A j \in 2..(i - 1) : ~Fills(seq[j], r)

\* The number whose bits are the roles of S, by their index in arguments.
RECURSIVE Bits(_, _)
Bits(S, i) ==
  IF i > Len(arguments) THEN 0
  ELSE (IF arguments[i] \in S THEN Pow2(i - 1) ELSE 0) + Bits(S, i + 1)

\* C20: the control generate_control builds for k roles accepts a sequence
\* iff it is one VERB unit followed by k units that fill each role exactly
\* once, in any order; the state n reached after the VERB encodes the set of
\* roles filled in the bits of n - 1, every set of roles has its state with
\* a transition into it, and the one final state 2^k is the state of all
\* roles filled.
C20_Hypercube ==
  (call.fn = "check" /\ call.kind = "verb") =>
    LET k == Len(arguments)
        seq == call.seq
    IN /\ call.res <=>
            /\ Len(seq) = k + 1
            /\ tags[seq[1]] = "VERB"
            /\ \A r \in Range(arguments) :
                 Cardinality({i \in 2..Len(seq) : Fills(seq[i], r)}) = 1
       /\ call.state = IF seq = <<>> THEN 0
                       ELSE IF FillsInTurn(seq) THEN 1 + Bits(FilledBy(seq), 1)
                       ELSE Stuck
       /\ VerbControl.final = {Pow2(k)}
       /\ Pow2(k) = 1 + Bits(Range(arguments), 1)
       /\ \A S \in SUBSET Range(arguments) :
            S # {} =>
              \E r \in S : \E t \in Range(VerbControl.trans) :
                 /\ t.matcher = RoleMatcher(r)
                 /\ t.src = 1 + Bits(S \ {r}, 1)
                 /\ t.dst = 1 + Bits(S, 1)

\* A verb with two roles accepted a sequence that fills the second role
\* before the first.
C20_Witness ==
  /\ call.fn = "check" /\ call.kind = "verb" /\ call.res
  /\ Len(arguments) = 2
  /\ Len(call.seq) = 3
  /\ Fills(call.seq[2], arguments[2])
  /\ Fills(call.seq[3], arguments[1])

\* The add_transition calls made so far for the state src and the matcher m.
CallsFor(src, m) ==
  {i \in 1..Len(control.calls) :
     control.calls[i].src = src /\ MatcherOf(control.calls[i]) = m}

RECURSIVE Fact(_)
Fact(n) == IF n = 0 THEN 1 ELSE n * Fact(n - 1)

\* The number of bits set in n.
RECURSIVE PopCount(_)
PopCount(n) == IF n = 0 THEN 0 ELSE (n % 2) + PopCount(n \div 2)

\* generate_control has made all its add_transition calls.
GenDone == Len(control.calls) = 1 + Len(arguments) * Fact(Len(arguments))

\* C21 as stated: generate_control calls add_transition at most once for a
\* pair (source state, role matcher), for every number of roles.
C21_OneCallPerPair ==
  \A i \in 1..Len(control.calls) :
     CallsFor(control.calls[i].src, MatcherOf(control.calls[i])) = {i}

\* C21, amended: the calls generate_control makes for one pair (source
\* state, role matcher) all give the same destination and operators, so the
\* automaton holds exactly one transition for the pair; the pair is added
\* once when there are at most two roles, and in general f! * (k - f - 1)!
\* times, f being the number of roles filled in the source state.
C21_OneTransitionPerPair ==
  LET k == Len(arguments)
  IN /\ \A i \in 1..Len(control.calls) :
          LET c == control.calls[i]
              same == CallsFor(c.src, MatcherOf(c))
          IN /\ \A j \in same : control.calls[j] = c
             /\ {t \in control.transitions :
                    t.src = c.src /\ MatcherOf(t) = MatcherOf(c)} = {c}
             /\ (k <= 2) => same = {i}
             /\ (GenDone /\ c.src > 0) =>
                   Cardinality(same)
                     = Fact(PopCount(c.src - 1))
                         * Fact(k - PopCount(c.src - 1) - 1)
     /\ \A t \in control.transitions :
          \E i \in 1..Len(control.calls) : control.calls[i] = t

\* generate_control has run to its end for three roles and has added the
\* transition of one pair twice.
C21_Witness ==
  /\ GenDone
  /\ Len(arguments) = 3
  /\ \E i, j \in 1..Len(control.calls) :
       /\ i < j
       /\ j \in CallsFor(control.calls[i].src, MatcherOf(control.calls[i]))

\* C22: when activation_loop comes to act for an AVM construction with a
\* non-empty working set, the sequence it acts on is a permutation of the
\* whole working set, the first act() gives a result, and right after the
\* step the working set is {avm}: every other unit has been removed.
C22_AvmTakesAll ==
  [][(pc = "act" /\ constructions[ci] = "avm" /\ sentence # {})
       => /\ accepted # <<>>
          /\ acts = <<>>
          /\ Len(accepted[Len(accepted)]) = Cardinality(sentence)
          /\ Range(accepted[Len(accepted)]) = sentence
          /\ acts' = <<[kind |-> "avm", seq |-> accepted[Len(accepted)],
                        res |-> Some(<<AVMU>>), nops |-> 0]>>
          /\ sentence' = {AVMU}
          /\ pc' \in {"search", "link"}
    ]_vars

\* An AVM construction has just acted on a sequence of two or more units,
\* and the working set is {avm}.
C22_Witness ==
  /\ Len(acts) = 1
  /\ acts[1].kind = "avm"
  /\ Len(acts[1].seq) >= 2
  /\ sentence = {AVMU}
  /\ Cardinality(consumed) >= 2

====
